---- MODULE Spec2Model ----
(***************************************************************************)
(* Model of the leaderboard-bot Cloudflare Worker (src/src/index.ts):      *)
(* the webhook handler `handle`, the signature check `verifySignature`     *)
(* and the comparator `timingSafeEqual`.                                   *)
(*                                                                         *)
(* Strings that the code inspects character by character (request body,    *)
(* signature header, webhook secret, hex digests) are sequences of         *)
(* character codes.  Strings that the code only tests for emptiness,       *)
(* compares as a whole or interpolates (event header, trigger token,       *)
(* response bodies, log lines) are TLA+ strings.                           *)
(*                                                                         *)
(* Specifications: Spec (requests handled one after the other),            *)
(* SpecForward (signed requests with richer envelopes), SpecCompare        *)
(* (timingSafeEqual step by step), SpecConcurrent (interleaved             *)
(* invocations) and SpecTermination (every await is resumed).              *)
(***************************************************************************)
EXTENDS Integers, Sequences, FiniteSets, TLC

(***************************************************************************)
(* Bounds of the model.                                                    *)
(***************************************************************************)
\* number of requests delivered to the worker in one behaviour
MaxRequests == 2
\* length in bytes of the digest of the modelled keyed hash (SHA-256: 32)
DigestBytes == 2
\* greatest length of the strings given to the comparator on its own
MaxLen == 3

(***************************************************************************)
(* String literals of the source, as character codes.                      *)
(***************************************************************************)
\* "sha256="
Sha256Prefix == <<115, 104, 97, 50, 53, 54, 61>>

(***************************************************************************)
(* Inputs.                                                                 *)
(***************************************************************************)
\* "{}"
BodyEmptyObject == <<123, 125>>
\* {"a":1}
BodyObject == <<123, 34, 97, 34, 58, 49, 125>>
\* "x", not JSON
BodyNotJson == <<120>>
Bodies == {BodyEmptyObject, BodyObject, BodyNotJson}

\* "k"
SecretK == <<107>>
\* "s2"
SecretS2 == <<115, 50>>
Secrets == {<< >>, SecretK, SecretS2}

Tokens == {"", "test-token-123"}
Methods == {"GET", "POST"}
\* values of the x-github-event header, when the request carries it
Events == {"", "installation", "installation_repositories", "push"}

(***************************************************************************)
(* Bit operations on character codes (UTF-16 code units, 16 bits).         *)
(***************************************************************************)
\* the bit operations are functions, so that an argument is evaluated once
\* however often the definition uses it
XorOf[x \in Nat, y \in Nat] ==
    IF x = 0 /\ y = 0 THEN 0
    ELSE (IF (x % 2) # (y % 2) THEN 1 ELSE 0) + 2 * XorOf[x \div 2, y \div 2]

BitXor(x, y) == XorOf[x, y]

OrOf[x \in Nat, y \in Nat] ==
    IF x = 0 /\ y = 0 THEN 0
    ELSE (IF (x % 2) = 1 \/ (y % 2) = 1 THEN 1 ELSE 0) + 2 * OrOf[x \div 2, y \div 2]

BitOr(x, y) == OrOf[x, y]

(***************************************************************************)
(* timingSafeEqual: length test, then the OR-accumulated XOR of every      *)
(* pair of character codes.                                                *)
(***************************************************************************)
RECURSIVE TimingSafeLoop(_, _, _, _)
TimingSafeLoop(a, b, i, result) ==
    IF i > Len(a) THEN result
    ELSE TimingSafeLoop(a, b, i + 1, BitOr(result, BitXor(a[i], b[i])))

\* variant: the character loop is left out, only the lengths are compared
timingSafeEqualLengthOnly(a, b) == Len(a) = Len(b)

timingSafeEqual(a, b) ==
    IF Len(a) # Len(b) THEN FALSE
    ELSE TimingSafeLoop(a, b, 1, 0) = 0

(***************************************************************************)
(* String.prototype.replace with a string pattern: the first occurrence    *)
(* of the pattern, wherever it is, is replaced.                            *)
(***************************************************************************)
IndexOf(s, pat) ==
    LET hits == {i \in 1..(Len(s) - Len(pat) + 1) :
                    SubSeq(s, i, i + Len(pat) - 1) = pat}
    IN  IF hits = {} THEN 0 ELSE CHOOSE i \in hits : \A j \in hits : i <= j

\* variant: nothing is replaced
ReplaceNothing(s, pat, rep) == s

\* variant: the pattern is replaced only where it starts the string
ReplaceLeading(s, pat, rep) ==
    IF Len(s) >= Len(pat) /\ SubSeq(s, 1, Len(pat)) = pat
    THEN rep \o SubSeq(s, Len(pat) + 1, Len(s))
    ELSE s

Replace(s, pat, rep) ==
    LET i == IndexOf(s, pat)
    IN  IF i = 0 THEN s
        ELSE SubSeq(s, 1, i - 1) \o rep \o SubSeq(s, i + Len(pat), Len(s))

(***************************************************************************)
(* HMAC-SHA256 of crypto.subtle, abstracted to a keyed hash of             *)
(* DigestBytes bytes which is injective on the modelled keys and bodies.   *)
(***************************************************************************)
\* byte k of the digest: a fold over the characters of the input
RECURSIVE HashByte(_, _, _, _)
HashByte(s, k, i, n) ==
    IF i > Len(s) THEN n
    ELSE HashByte(s, k, i + 1, (n * (131 + 6 * k) + s[i] + k) % 256)

\* variant: the key is signed instead of the data
HmacSignKeyOnly(key, data) ==
    [k \in 1..DigestBytes |-> HashByte(key \o <<0>> \o key, k, 1, 0)]

HmacSign(key, data) ==
    [k \in 1..DigestBytes |-> HashByte(key \o <<0>> \o data, k, 1, 0)]

(***************************************************************************)
(* Hex conversion: b.toString(16).padStart(2, "0"), joined.                *)
(***************************************************************************)
HexDigit(d) == IF d < 10 THEN 48 + d ELSE 87 + d

ToString16(b) ==
    IF b < 16 THEN <<HexDigit(b)>>
    ELSE <<HexDigit(b \div 16), HexDigit(b % 16)>>

PadStart2(s) == IF Len(s) < 2 THEN <<48>> \o s ELSE s

RECURSIVE HexJoin(_, _)
HexJoin(bytes, i) ==
    IF i > Len(bytes) THEN << >>
    ELSE PadStart2(ToString16(bytes[i])) \o HexJoin(bytes, i + 1)

ToHex(bytes) == HexJoin(bytes, 1)

(***************************************************************************)
(* verifySignature: the result and the lines written to console.error.     *)
(***************************************************************************)
SecretNotConfigured == "GITHUB_WEBHOOK_SECRET is not configured"

\* variant: an empty secret is used as the key instead of being refused
verifySignatureAnySecret(payload, signature, secret) ==
    LET signatureHash == Replace(signature, Sha256Prefix, << >>)
        computedHash == ToHex(HmacSign(secret, payload))
    IN  [result |-> timingSafeEqual(computedHash, signatureHash),
         errors |-> << >>]

\* variant: the missing secret is reported by verifySignature and once
\* more by its caller
verifySignatureLogTwice(payload, signature, secret) ==
    IF secret = << >>
    THEN [result |-> FALSE, errors |-> <<SecretNotConfigured, SecretNotConfigured>>]
    ELSE LET signatureHash == Replace(signature, Sha256Prefix, << >>)
             computedHash == ToHex(HmacSign(secret, payload))
         IN  [result |-> timingSafeEqual(computedHash, signatureHash),
              errors |-> << >>]

verifySignature(payload, signature, secret) ==
    IF secret = << >>
    THEN [result |-> FALSE, errors |-> <<SecretNotConfigured>>]
    ELSE LET signatureHash == Replace(signature, Sha256Prefix, << >>)
             computedHash == ToHex(HmacSign(secret, payload))
         IN  [result |-> timingSafeEqual(computedHash, signatureHash),
              errors |-> << >>]

\* the test helper generateSignature: "sha256=" followed by the hex digest
generateSignature(payload, secret) ==
    Sha256Prefix \o ToHex(HmacSign(secret, payload))

(***************************************************************************)
(* Requests.  The headers of a request are a function from the names of    *)
(* the headers it carries to their values; Headers.get answers null for a  *)
(* name outside the domain.                                                *)
(***************************************************************************)
EventHeader == "x-github-event"
SignatureHeader == "x-hub-signature-256"

\* "0000", a digest-shaped value that is the digest of no modelled body
BadDigest == [i \in 1..(2 * DigestBytes) |-> 48]

\* hex digest with "sha256=" in the middle instead of in front
InfixSignature(payload, secret) ==
    LET hex == ToHex(HmacSign(secret, payload))
    IN  SubSeq(hex, 1, 2) \o Sha256Prefix \o SubSeq(hex, 3, Len(hex))

\* values of the x-hub-signature-256 header, when the request carries it
Signatures ==
    {<< >>, Sha256Prefix, Sha256Prefix \o BadDigest}
    \cup {generateSignature(b, s) : b \in Bodies, s \in Secrets}
    \cup {ToHex(HmacSign(SecretK, BodyEmptyObject))}
    \cup {InfixSignature(BodyEmptyObject, SecretK)}

HeaderSets ==
    {<< >>}
    \cup {[n \in {EventHeader} |-> e] : e \in Events}
    \cup {[n \in {SignatureHeader} |-> g] : g \in Signatures}
    \cup {[n \in {EventHeader, SignatureHeader} |->
              IF n = EventHeader THEN e ELSE g] : e \in Events, g \in Signatures}

Requests == [method : Methods, headers : HeaderSets, body : Bodies]

Has(headers, name) == name \in DOMAIN headers

Envs == [AUTOMATION_REPO_TRIGGER_TOKEN : Tokens, GITHUB_WEBHOOK_SECRET : Secrets]

(***************************************************************************)
(* The downstream endpoint: the statuses and bodies it may answer with.    *)
(***************************************************************************)
DownstreamStatuses == {200, 204, 401}
DownstreamTexts == {"", "Unauthorized"}

\* variant: only 200 counts as success
OkOnly200(status) == status = 200

\* Response.ok
Ok(status) == status >= 200 /\ status <= 299

(***************************************************************************)
(* JSON values: null, booleans, numbers, strings, arrays and objects.  A   *)
(* finite number is a decimal mantissa without trailing zeros and an       *)
(* exponent; an object is the sequence of its members in property order.   *)
(* Not modelled, and absent from the modelled texts: escapes in strings,   *)
(* fractions, negative exponents, integer-like keys, and numbers at the    *)
(* very edge of the double range (mantissa digits + exponent = 309).       *)
(***************************************************************************)
JNull == [type |-> "null"]
JBoolean(b) == [type |-> "boolean", value |-> b]
JString(chars) == [type |-> "string", chars |-> chars]
JArray(items) == [type |-> "array", items |-> items]
JObject(members) == [type |-> "object", members |-> members]
JInfinity(neg) == [type |-> "number", finite |-> FALSE, neg |-> neg,
                   mantissa |-> 0, exponent |-> 0]

RECURSIVE NatDigits(_)
NatDigits(n) ==
    IF n < 10 THEN <<48 + n>> ELSE NatDigits(n \div 10) \o <<48 + (n % 10)>>

\* the double of the decimal literal (-)m e x: zero keeps its sign, a
\* magnitude of 1e309 or more is Infinity
RECURSIVE JNumber(_, _, _)
JNumber(neg, m, x) ==
    IF m = 0
    THEN [type |-> "number", finite |-> TRUE, neg |-> neg,
          mantissa |-> 0, exponent |-> 0]
    ELSE IF m % 10 = 0 THEN JNumber(neg, m \div 10, x + 1)
    ELSE IF Len(NatDigits(m)) + x > 309 THEN JInfinity(neg)
    ELSE [type |-> "number", finite |-> TRUE, neg |-> neg,
          mantissa |-> m, exponent |-> x]

(***************************************************************************)
(* JSON.parse: a recursive-descent parser over the characters of the text. *)
(* A parse answers [ok, value, pos], pos being the first character after   *)
(* the value.                                                              *)
(***************************************************************************)
IsWhitespace(c) == c \in {32, 9, 10, 13}
IsDigit(c) == c \in 48..57

ParseFail == [ok |-> FALSE, value |-> JNull, pos |-> 0]
ParseOk(v, i) == [ok |-> TRUE, value |-> v, pos |-> i]

RECURSIVE SkipWhitespace(_, _)
SkipWhitespace(t, i) ==
    IF i <= Len(t) /\ IsWhitespace(t[i]) THEN SkipWhitespace(t, i + 1) ELSE i

\* the literal w stands at position i of t
LiteralAt(t, i, w) == i + Len(w) - 1 <= Len(t) /\ SubSeq(t, i, i + Len(w) - 1) = w

\* the digits from position i on: their value and the position after them
RECURSIVE ParseDigits(_, _, _)
ParseDigits(t, i, n) ==
    IF i <= Len(t) /\ IsDigit(t[i])
    THEN ParseDigits(t, i + 1, 10 * n + (t[i] - 48))
    ELSE [value |-> n, pos |-> i]

\* number: -? digits ([eE] [+]? digits)?
ParseNumber(t, i) ==
    LET neg == t[i] = 45
        j == IF neg THEN i + 1 ELSE i
        m == ParseDigits(t, j, 0)
        hasExp == m.pos <= Len(t) /\ t[m.pos] \in {101, 69}
        k == IF hasExp /\ m.pos + 1 <= Len(t) /\ t[m.pos + 1] = 43
             THEN m.pos + 2 ELSE m.pos + 1
        x == ParseDigits(t, k, 0)
    IN  IF m.pos = j THEN ParseFail
        ELSE IF m.pos - j > 1 /\ t[j] = 48 THEN ParseFail
        ELSE IF ~hasExp THEN ParseOk(JNumber(neg, m.value, 0), m.pos)
        ELSE IF x.pos = k THEN ParseFail
        ELSE ParseOk(JNumber(neg, m.value, x.value), x.pos)

\* the closing quote of the string that opens at position i - 1
RECURSIVE StringEnd(_, _)
StringEnd(t, i) ==
    IF i > Len(t) \/ t[i] = 92 \/ t[i] < 32 THEN 0
    ELSE IF t[i] = 34 THEN i
    ELSE StringEnd(t, i + 1)

ParseString(t, i) ==
    LET e == StringEnd(t, i + 1)
    IN  IF e = 0 THEN ParseFail
        ELSE ParseOk(JString(SubSeq(t, i + 1, e - 1)), e + 1)

\* a property is set: a key the object has keeps its place and takes the
\* new value, a new key is added at the end
SetMember(members, key, value) ==
    IF \E n \in 1..Len(members) : members[n].key = key
    THEN [n \in 1..Len(members) |->
             IF members[n].key = key
             THEN [key |-> key, value |-> value] ELSE members[n]]
    ELSE Append(members, [key |-> key, value |-> value])

RECURSIVE ParseValue(_, _)
RECURSIVE ParseMembers(_, _, _)
RECURSIVE ParseElements(_, _, _)

\* members of an object, from the first key on
ParseMembers(t, i0, acc) ==
    LET i == SkipWhitespace(t, i0)
    IN  IF i > Len(t) \/ t[i] # 34 THEN ParseFail
        ELSE LET k == ParseString(t, i)
                 c == IF k.ok THEN SkipWhitespace(t, k.pos) ELSE 0
             IN  IF ~k.ok \/ c > Len(t) \/ t[c] # 58 THEN ParseFail
                 ELSE LET v == ParseValue(t, c + 1)
                          d == IF v.ok THEN SkipWhitespace(t, v.pos) ELSE 0
                      IN  IF ~v.ok \/ d > Len(t) THEN ParseFail
                          ELSE IF t[d] = 44
                          THEN ParseMembers(t, d + 1,
                                   SetMember(acc, k.value.chars, v.value))
                          ELSE IF t[d] = 125
                          THEN ParseOk(JObject(SetMember(acc, k.value.chars,
                                                         v.value)), d + 1)
                          ELSE ParseFail

\* elements of an array, from the first element on
ParseElements(t, i0, acc) ==
    LET v == ParseValue(t, i0)
        d == IF v.ok THEN SkipWhitespace(t, v.pos) ELSE 0
    IN  IF ~v.ok \/ d > Len(t) THEN ParseFail
        ELSE IF t[d] = 44 THEN ParseElements(t, d + 1, Append(acc, v.value))
        ELSE IF t[d] = 93 THEN ParseOk(JArray(Append(acc, v.value)), d + 1)
        ELSE ParseFail

ParseValue(t, i0) ==
    LET i == SkipWhitespace(t, i0)
    IN  IF i > Len(t) THEN ParseFail
        ELSE IF t[i] = 123
        THEN LET j == SkipWhitespace(t, i + 1)
             IN  IF j <= Len(t) /\ t[j] = 125
                 THEN ParseOk(JObject(<< >>), j + 1)
                 ELSE ParseMembers(t, j, << >>)
        ELSE IF t[i] = 91
        THEN LET j == SkipWhitespace(t, i + 1)
             IN  IF j <= Len(t) /\ t[j] = 93
                 THEN ParseOk(JArray(<< >>), j + 1)
                 ELSE ParseElements(t, j, << >>)
        ELSE IF t[i] = 34 THEN ParseString(t, i)
        ELSE IF t[i] = 45 \/ IsDigit(t[i]) THEN ParseNumber(t, i)
        ELSE IF LiteralAt(t, i, <<110, 117, 108, 108>>) THEN ParseOk(JNull, i + 4)
        ELSE IF LiteralAt(t, i, <<116, 114, 117, 101>>)
        THEN ParseOk(JBoolean(TRUE), i + 4)
        ELSE IF LiteralAt(t, i, <<102, 97, 108, 115, 101>>)
        THEN ParseOk(JBoolean(FALSE), i + 5)
        ELSE ParseFail

\* the whole text is one value
ParseText(text) ==
    LET r == ParseValue(text, 1)
    IN  IF r.ok /\ SkipWhitespace(text, r.pos) = Len(text) + 1
        THEN [ok |-> TRUE, value |-> r.value]
        ELSE [ok |-> FALSE, value |-> JNull]

\* variant: a text that is not JSON parses to an empty object
JSONParseLenient(text) ==
    IF ParseText(text).ok THEN ParseText(text)
    ELSE [ok |-> TRUE, value |-> JObject(<< >>)]

\* JSON.parse: the parsed value, or a SyntaxError (ok = FALSE)
JSONParse(text) == ParseText(text)

(***************************************************************************)
(* JSON.stringify.                                                         *)
(***************************************************************************)
RECURSIVE Zeros(_)
Zeros(n) == IF n = 0 THEN << >> ELSE <<48>> \o Zeros(n - 1)

\* Number to string: digits up to 21 of them, exponent form beyond
NumberToString(v) ==
    LET d == NatDigits(v.mantissa)
        sign == IF v.neg /\ v.mantissa # 0 THEN <<45>> ELSE << >>
    IN  IF Len(d) + v.exponent <= 21
        THEN sign \o d \o Zeros(v.exponent)
        ELSE sign \o <<d[1]>>
                 \o (IF Len(d) > 1 THEN <<46>> \o SubSeq(d, 2, Len(d)) ELSE << >>)
                 \o <<101, 43>> \o NatDigits(Len(d) + v.exponent - 1)

Quote(chars) == <<34>> \o chars \o <<34>>

RECURSIVE JSONStringify(_)
RECURSIVE StringifyItems(_, _)
RECURSIVE StringifyMembers(_, _)

StringifyItems(items, n) ==
    IF n > Len(items) THEN << >>
    ELSE (IF n > 1 THEN <<44>> ELSE << >>)
             \o JSONStringify(items[n]) \o StringifyItems(items, n + 1)

StringifyMembers(members, n) ==
    IF n > Len(members) THEN << >>
    ELSE (IF n > 1 THEN <<44>> ELSE << >>)
             \o Quote(members[n].key) \o <<58>> \o JSONStringify(members[n].value)
             \o StringifyMembers(members, n + 1)

\* a number that is not finite is written as null
JSONStringify(v) ==
    CASE v.type = "null" -> <<110, 117, 108, 108>>
      [] v.type = "boolean" ->
            IF v.value THEN <<116, 114, 117, 101>> ELSE <<102, 97, 108, 115, 101>>
      [] v.type = "number" ->
            IF v.finite THEN NumberToString(v) ELSE <<110, 117, 108, 108>>
      [] v.type = "string" -> Quote(v.chars)
      [] v.type = "array" -> <<91>> \o StringifyItems(v.items, 1) \o <<93>>
      [] v.type = "object" -> <<123>> \o StringifyMembers(v.members, 1) \o <<125>>

(***************************************************************************)
(* The characters of the strings that handle puts into JSON.               *)
(***************************************************************************)
CharCodes(str) ==
    CASE str = "" -> << >>
      [] str = "installation" ->
              <<105, 110, 115, 116, 97, 108, 108, 97, 116, 105, 111, 110>>
      [] str = "installation_repositories" ->
              <<105, 110, 115, 116, 97, 108, 108, 97, 116, 105, 111, 110,
                95, 114, 101, 112, 111, 115, 105, 116, 111, 114, 105, 101,
                115>>
      [] str = "push" -> <<112, 117, 115, 104>>
      [] str = "leaderboard-bot-installed" ->
              <<108, 101, 97, 100, 101, 114, 98, 111, 97, 114, 100, 45, 98,
                111, 116, 45, 105, 110, 115, 116, 97, 108, 108, 101, 100>>
      [] str = "event_type" ->
              <<101, 118, 101, 110, 116, 95, 116, 121, 112, 101>>
      [] str = "client_payload" ->
              <<99, 108, 105, 101, 110, 116, 95, 112, 97, 121, 108, 111,
                97, 100>>
      [] str = "github_event" ->
              <<103, 105, 116, 104, 117, 98, 95, 101, 118, 101, 110, 116>>
      [] str = "payload" -> <<112, 97, 121, 108, 111, 97, 100>>

(***************************************************************************)
(* Values built by handle.                                                 *)
(***************************************************************************)
\* variant: installation_repositories is left out of the list
RecognizedEventsInstallationOnly == {"installation"}

RecognizedEvents == {"installation", "installation_repositories"}

\* variant: the method is not looked at
NotPostNever(method) == FALSE

\* the test `req.method !== "POST"` of handle
NotPost(method) == method # "POST"

DispatchUrl ==
    "https://api.github.com/repos/" \o "rithviknishad" \o "/" \o "leaderboard-bot"
        \o "/dispatches"

Member(name, value) == [key |-> CharCodes(name), value |-> value]

\* variant: the event name is the constant "installation"
DispatchBodyFixedEvent(event, payload) ==
    JObject(<<Member("event_type", JString(CharCodes("leaderboard-bot-installed"))),
              Member("client_payload",
                     JObject(<<Member("github_event",
                                      JString(CharCodes("installation"))),
                               Member("payload", payload)>>))>>)

\* the object literal dispatchBody
DispatchBody(event, payload) ==
    JObject(<<Member("event_type", JString(CharCodes("leaderboard-bot-installed"))),
              Member("client_payload",
                     JObject(<<Member("github_event", JString(CharCodes(event))),
                               Member("payload", payload)>>))>>)

DispatchHeaders(token) ==
    [authorization |-> "token " \o token,
     accept |-> "application/vnd.github+json",
     contentType |-> "application/json",
     userAgent |-> "leaderboard-bot-worker"]

Response(status, body) == [status |-> status, body |-> body]

NoResponse == Response(0, "")

\* variant: the signature header is looked at before the event header
HeaderCheckSignatureFirst(headers) ==
    IF ~Has(headers, SignatureHeader) \/ headers[SignatureHeader] = << >>
    THEN Response(401, "missing x-hub-signature-256 header")
    ELSE IF ~Has(headers, EventHeader) \/ headers[EventHeader] = ""
    THEN Response(400, "missing x-github-event header")
    ELSE NoResponse

\* variant: a missing signature header is answered like a missing event header
HeaderCheckBadRequest(headers) ==
    IF ~Has(headers, EventHeader) \/ headers[EventHeader] = ""
    THEN Response(400, "missing x-github-event header")
    ELSE IF ~Has(headers, SignatureHeader) \/ headers[SignatureHeader] = << >>
    THEN Response(400, "missing x-hub-signature-256 header")
    ELSE NoResponse

\* variant: a missing signature header gets the answer of a missing event header
HeaderCheckOneAnswer(headers) ==
    IF ~Has(headers, EventHeader) \/ headers[EventHeader] = ""
    THEN Response(400, "missing x-github-event header")
    ELSE IF ~Has(headers, SignatureHeader) \/ headers[SignatureHeader] = << >>
    THEN Response(400, "missing x-github-event header")
    ELSE NoResponse

\* variant: the headers are compared with null, an empty value passes
HeaderCheckNullOnly(headers) ==
    IF ~Has(headers, EventHeader)
    THEN Response(400, "missing x-github-event header")
    ELSE IF ~Has(headers, SignatureHeader)
    THEN Response(401, "missing x-hub-signature-256 header")
    ELSE NoResponse

\* the tests `!event` and `!signature` of handle: the response of the first
\* one that fails, NoResponse when both headers have a non-empty value
HeaderCheck(headers) ==
    IF ~Has(headers, EventHeader) \/ headers[EventHeader] = ""
    THEN Response(400, "missing x-github-event header")
    ELSE IF ~Has(headers, SignatureHeader) \/ headers[SignatureHeader] = << >>
    THEN Response(401, "missing x-hub-signature-256 header")
    ELSE NoResponse

NoRequest == [method |-> "", headers |-> << >>, body |-> << >>]
NoDownstream == [status |-> 0, text |-> ""]
\* no call of timingSafeEqual is followed
NoCompare == [pc |-> "none", a |-> << >>, b |-> << >>, i |-> 0, result |-> 0,
              examined |-> {}, value |-> FALSE]
\* no invocation runs concurrently
NoInvocations == << >>

(***************************************************************************)
(* State.                                                                  *)
(***************************************************************************)
VARIABLES
    env,          \* the configuration (Env), read-only
    rid,          \* number of requests received so far
    req,          \* the request being handled
    pc,           \* position of handle: idle, awaitText, awaitVerify,
                  \* awaitFetch, awaitErrorText, done (returned a response),
                  \* failed (left by an exception)
    isValid,      \* local isValid of handle
    verifyCalls,  \* number of calls of verifySignature for this request
    resp,         \* the downstream answer to the outbound call
    response,     \* the response returned to the caller
    outbound,     \* the outbound calls made so far, each with the number
                  \* and the request of the invocation that made it
    log,          \* the lines written to console.error so far
    compare,      \* the call of timingSafeEqual that is followed step by
                  \* step: its arguments, locals and position
    invocations   \* the invocations of handle that run concurrently, each
                  \* with its own request and locals

vars == <<env, rid, req, pc, isValid, verifyCalls, resp, response, outbound, log,
          compare, invocations>>

Init ==
    /\ env \in Envs
    /\ rid = 0
    /\ req = NoRequest
    /\ pc = "idle"
    /\ isValid = FALSE
    /\ verifyCalls = 0
    /\ resp = NoDownstream
    /\ response = NoResponse
    /\ outbound = << >>
    /\ log = << >>
    /\ compare = NoCompare
    /\ invocations = NoInvocations

\* handle returns a response
Return(r) ==
    /\ response' = r
    /\ pc' = "done"

\* fetch is invoked with a request; handle runs up to `await req.text()`
Receive(r) ==
    /\ pc \in {"idle", "done", "failed"}
    /\ rid < MaxRequests
    /\ rid' = rid + 1
    /\ req' = r
    /\ isValid' = FALSE
    /\ verifyCalls' = 0
    /\ resp' = NoDownstream
    /\ IF NotPost(r.method)
       THEN Return(Response(200, "ok"))
       ELSE /\ response' = NoResponse
            /\ pc' = "awaitText"
    /\ UNCHANGED <<env, outbound, log>>
    /\ UNCHANGED <<compare, invocations>>

\* the body is read; the header checks run and verifySignature is called
ReadBody ==
    /\ pc = "awaitText"
    /\ IF HeaderCheck(req.headers) # NoResponse
       THEN /\ Return(HeaderCheck(req.headers))
            /\ UNCHANGED <<isValid, verifyCalls, log>>
       ELSE LET v == verifySignature(req.body, req.headers[SignatureHeader],
                                     env.GITHUB_WEBHOOK_SECRET)
            IN  /\ isValid' = v.result
                /\ verifyCalls' = verifyCalls + 1
                /\ log' = log \o [i \in 1..Len(v.errors) |->
                                     [rid |-> rid, line |-> v.errors[i]]]
                /\ pc' = "awaitVerify"
                /\ UNCHANGED response
    /\ UNCHANGED <<env, rid, req, resp, outbound>>
    /\ UNCHANGED <<compare, invocations>>

\* variant: the event type is examined before the body is parsed
AfterVerifyFilterFirst ==
    /\ pc = "awaitVerify"
    /\ LET event == req.headers[EventHeader]
           parsed == JSONParse(req.body)
           token == env.AUTOMATION_REPO_TRIGGER_TOKEN
       IN  IF ~isValid
           THEN /\ Return(Response(401, "invalid signature"))
                /\ UNCHANGED outbound
           ELSE IF event \notin RecognizedEvents
           THEN /\ Return(Response(200, "event ignored"))
                /\ UNCHANGED outbound
           ELSE IF ~parsed.ok
           THEN /\ pc' = "failed"
                /\ UNCHANGED <<response, outbound>>
           ELSE IF token = ""
           THEN /\ Return(Response(500, "missing AUTOMATION_REPO_TRIGGER_TOKEN"))
                /\ UNCHANGED outbound
           ELSE /\ outbound' = Append(outbound,
                        [rid |-> rid,
                         request |-> req,
                         url |-> DispatchUrl,
                         method |-> "POST",
                         headers |-> DispatchHeaders(token),
                         body |-> JSONStringify(
                                      DispatchBody(event, parsed.value))])
                /\ pc' = "awaitFetch"
                /\ UNCHANGED response
    /\ UNCHANGED <<env, rid, req, isValid, verifyCalls, resp, log>>
    /\ UNCHANGED <<compare, invocations>>

\* variant: the trigger token is examined before the event type
AfterVerifyTokenFirst ==
    /\ pc = "awaitVerify"
    /\ LET event == req.headers[EventHeader]
           parsed == JSONParse(req.body)
           token == env.AUTOMATION_REPO_TRIGGER_TOKEN
       IN  IF ~isValid
           THEN /\ Return(Response(401, "invalid signature"))
                /\ UNCHANGED outbound
           ELSE IF ~parsed.ok
           THEN /\ pc' = "failed"
                /\ UNCHANGED <<response, outbound>>
           ELSE IF token = ""
           THEN /\ Return(Response(500, "missing AUTOMATION_REPO_TRIGGER_TOKEN"))
                /\ UNCHANGED outbound
           ELSE IF event \notin RecognizedEvents
           THEN /\ Return(Response(200, "event ignored"))
                /\ UNCHANGED outbound
           ELSE /\ outbound' = Append(outbound,
                        [rid |-> rid,
                         request |-> req,
                         url |-> DispatchUrl,
                         method |-> "POST",
                         headers |-> DispatchHeaders(token),
                         body |-> JSONStringify(
                                      DispatchBody(event, parsed.value))])
                /\ pc' = "awaitFetch"
                /\ UNCHANGED response
    /\ UNCHANGED <<env, rid, req, isValid, verifyCalls, resp, log>>
    /\ UNCHANGED <<compare, invocations>>

\* verifySignature has answered; handle runs up to `await fetch(...)`
AfterVerify ==
    /\ pc = "awaitVerify"
    /\ LET event == req.headers[EventHeader]
           parsed == JSONParse(req.body)
           token == env.AUTOMATION_REPO_TRIGGER_TOKEN
       IN  IF ~isValid
           THEN /\ Return(Response(401, "invalid signature"))
                /\ UNCHANGED outbound
           ELSE IF ~parsed.ok
           THEN /\ pc' = "failed"
                /\ UNCHANGED <<response, outbound>>
           ELSE IF event \notin RecognizedEvents
           THEN /\ Return(Response(200, "event ignored"))
                /\ UNCHANGED outbound
           ELSE IF token = ""
           THEN /\ Return(Response(500, "missing AUTOMATION_REPO_TRIGGER_TOKEN"))
                /\ UNCHANGED outbound
           ELSE /\ outbound' = Append(outbound,
                        [rid |-> rid,
                         request |-> req,
                         url |-> DispatchUrl,
                         method |-> "POST",
                         headers |-> DispatchHeaders(token),
                         body |-> JSONStringify(
                                      DispatchBody(event, parsed.value))])
                /\ pc' = "awaitFetch"
                /\ UNCHANGED response
    /\ UNCHANGED <<env, rid, req, isValid, verifyCalls, resp, log>>
    /\ UNCHANGED <<compare, invocations>>

\* the downstream endpoint answers the outbound call
DownstreamRespond(status, text) ==
    /\ pc = "awaitFetch"
    /\ resp' = [status |-> status, text |-> text]
    /\ IF ~Ok(status)
       THEN /\ pc' = "awaitErrorText"
            /\ UNCHANGED response
       ELSE Return(Response(200, "dispatched: " \o ToString(status)))
    /\ UNCHANGED <<env, rid, req, isValid, verifyCalls, outbound, log>>
    /\ UNCHANGED <<compare, invocations>>

\* the outbound call fails without an answer (fetch rejects); the exception
\* leaves handle
DownstreamReject ==
    /\ pc = "awaitFetch"
    /\ pc' = "failed"
    /\ UNCHANGED <<env, rid, req, isValid, verifyCalls, resp, response,
                   outbound, log>>
    /\ UNCHANGED <<compare, invocations>>

\* variant: the failure is reported to the caller and not logged
ReadErrorTextNoLog ==
    /\ pc = "awaitErrorText"
    /\ Return(Response(500, "dispatch failed: " \o ToString(resp.status)))
    /\ UNCHANGED <<env, rid, req, isValid, verifyCalls, resp, outbound, log>>
    /\ UNCHANGED <<compare, invocations>>

\* variant: after a failed answer the call is made once more
ReadErrorTextRetry ==
    /\ pc = "awaitErrorText"
    /\ Len(outbound) <= MaxRequests
    /\ outbound' = Append(outbound, outbound[Len(outbound)])
    /\ pc' = "awaitFetch"
    /\ UNCHANGED <<env, rid, req, isValid, verifyCalls, resp, response, log>>
    /\ UNCHANGED <<compare, invocations>>

\* variant: after a failed answer handle waits for another answer to the
\* same call
ReadErrorTextPollAgain ==
    /\ pc = "awaitErrorText"
    /\ pc' = "awaitFetch"
    /\ UNCHANGED <<env, rid, req, isValid, verifyCalls, resp, response,
                   outbound, log>>
    /\ UNCHANGED <<compare, invocations>>

\* the body of a failed downstream answer is read, logged and reported
ReadErrorText ==
    /\ pc = "awaitErrorText"
    /\ log' = Append(log,
            [rid |-> rid,
             line |-> "GitHub API error: " \o ToString(resp.status)
                         \o " - " \o resp.text])
    /\ Return(Response(500, "dispatch failed: " \o ToString(resp.status)))
    /\ UNCHANGED <<env, rid, req, isValid, verifyCalls, resp, outbound>>
    /\ UNCHANGED <<compare, invocations>>

Next ==
    \/ \E r \in Requests : Receive(r)
    \/ ReadBody
    \/ AfterVerify
    \/ \E status \in DownstreamStatuses, text \in DownstreamTexts :
          DownstreamRespond(status, text)
    \/ DownstreamReject
    \/ ReadErrorText

Spec == Init /\ [][Next]_vars

(***************************************************************************)
(* Vocabulary of the properties, stated on the request being handled.      *)
(***************************************************************************)
IsPost == req.method = "POST"
HasEvent == Has(req.headers, EventHeader)
HasSignature == Has(req.headers, SignatureHeader)
\* both headers are carried, and with non-empty values
HasBothValues ==
    /\ HasEvent /\ req.headers[EventHeader] # ""
    /\ HasSignature /\ req.headers[SignatureHeader] # << >>

\* the hex digest of the body of the request under a key
DigestOf(secret) == ToHex(HmacSign(secret, req.body))

\* a header value carries a digest: it is the digest, alone or with the
\* literal "sha256=" put in front of it or at some place within it
Carries(signature, digest) ==
    \/ signature = digest
    \/ \E i \in 0..Len(digest) :
          signature = SubSeq(digest, 1, i) \o Sha256Prefix
                          \o SubSeq(digest, i + 1, Len(digest))

\* the signature header carries the digest of the body under the
\* configured, non-empty secret
SignatureMatches ==
    /\ HasSignature
    /\ env.GITHUB_WEBHOOK_SECRET # << >>
    /\ Carries(req.headers[SignatureHeader], DigestOf(env.GITHUB_WEBHOOK_SECRET))

\* the outbound calls and the log lines of the request being handled
CallsOfRequest == {i \in 1..Len(outbound) : outbound[i].rid = rid}
LinesOfRequest == {i \in 1..Len(log) : log[i].rid = rid}

\* handle has finished, with a response or with an exception
Finished == pc \in {"done", "failed"}
\* handle is past the header checks and the signature check
Decided == rid > 0 /\ pc \notin {"awaitText", "awaitVerify"}

\* the modelled bodies that are JSON texts
JsonBodies == {BodyEmptyObject, BodyObject}

\* the event types the properties call recognized
InstallationEvents == {"installation", "installation_repositories"}

InvalidSignatureResponse == Response(401, "invalid signature")

(***************************************************************************)
(* C1: an outbound call is made for a request only after its signature     *)
(* has been verified: the method is POST, both headers are present and the *)
(* signature header carries the hex digest of the body under the           *)
(* configured non-empty secret.                                            *)
(***************************************************************************)
C1_CallOnlyAfterVerification ==
    CallsOfRequest # {} =>
        /\ IsPost
        /\ HasEvent
        /\ SignatureMatches
        /\ verifyCalls = 1
        /\ isValid

\* a call was made for a request signed with the literal in front
C1_Witness ==
    /\ CallsOfRequest # {}
    /\ req.headers[SignatureHeader]
           = generateSignature(req.body, env.GITHUB_WEBHOOK_SECRET)

(***************************************************************************)
(* C2 as stated: with an empty secret every POST that carries both headers *)
(* is answered 401 "invalid signature", whatever the header values are.    *)
(***************************************************************************)
C2_Original ==
    (/\ env.GITHUB_WEBHOOK_SECRET = << >>
     /\ IsPost /\ HasEvent /\ HasSignature
     /\ Finished)
        => response = InvalidSignatureResponse

(***************************************************************************)
(* C2 as amended: with an empty secret every POST that carries both        *)
(* headers with non-empty values is answered 401 "invalid signature",      *)
(* also when the signature is the digest under the empty key; the          *)
(* misconfiguration is logged and no outbound call is made.                *)
(***************************************************************************)
C2_EmptySecretNeverVerifies ==
    (/\ env.GITHUB_WEBHOOK_SECRET = << >>
     /\ IsPost /\ HasBothValues)
        => /\ pc \in {"awaitText", "awaitVerify", "done"}
           /\ ~isValid
           /\ pc = "done" => response = InvalidSignatureResponse
           /\ pc # "awaitText" =>
                 \E i \in LinesOfRequest : log[i].line = SecretNotConfigured
           /\ CallsOfRequest = {}

\* answered, for a signature that is the digest under the empty key
C2_Witness ==
    /\ env.GITHUB_WEBHOOK_SECRET = << >>
    /\ IsPost /\ HasBothValues
    /\ req.headers[SignatureHeader] = generateSignature(req.body, << >>)
    /\ pc = "done"
    /\ response = InvalidSignatureResponse

(***************************************************************************)
(* C3 as stated: for every body B and every secret S, verifySignature      *)
(* accepts the signature of B under S.                                     *)
(***************************************************************************)
C3_Original ==
    (/\ pc = "awaitVerify"
     /\ req.headers[SignatureHeader]
            \in {generateSignature(req.body, env.GITHUB_WEBHOOK_SECRET),
                 DigestOf(env.GITHUB_WEBHOOK_SECRET)})
        => isValid

(***************************************************************************)
(* C3 as amended: for every body B and every non-empty secret S,           *)
(* verifySignature accepts the signature of B under S, with or without     *)
(* the literal "sha256=" in front.                                         *)
(***************************************************************************)
C3_RoundTrip ==
    (/\ pc = "awaitVerify"
     /\ env.GITHUB_WEBHOOK_SECRET # << >>
     /\ req.headers[SignatureHeader]
            \in {generateSignature(req.body, env.GITHUB_WEBHOOK_SECRET),
                 DigestOf(env.GITHUB_WEBHOOK_SECRET)})
        => isValid

\* verifySignature has answered for a signature made by generateSignature
C3_Witness ==
    /\ pc = "awaitVerify"
    /\ env.GITHUB_WEBHOOK_SECRET # << >>
    /\ req.headers[SignatureHeader]
           = generateSignature(req.body, env.GITHUB_WEBHOOK_SECRET)
    /\ isValid

(***************************************************************************)
(* C4: the signature of a body B2 under a secret S does not verify         *)
(* another body B1 under S.                                                *)
(***************************************************************************)
C4_OtherBodyRejected ==
    (/\ pc = "awaitVerify"
     /\ \E b2 \in Bodies \ {req.body} :
           req.headers[SignatureHeader]
               \in {generateSignature(b2, env.GITHUB_WEBHOOK_SECRET),
                    ToHex(HmacSign(env.GITHUB_WEBHOOK_SECRET, b2))})
        => ~isValid

\* verifySignature has answered, under a non-empty secret, for the
\* signature of another body
C4_Witness ==
    /\ pc = "awaitVerify"
    /\ env.GITHUB_WEBHOOK_SECRET = SecretK
    /\ req.body = BodyObject
    /\ req.headers[SignatureHeader] = generateSignature(BodyEmptyObject, SecretK)
    /\ ~isValid

(***************************************************************************)
(* C5 as stated: every POST that carries both headers and whose signature  *)
(* does not match the computed digest is answered 401 "invalid signature". *)
(***************************************************************************)
C5_Original ==
    (/\ IsPost /\ HasEvent /\ HasSignature
     /\ ~SignatureMatches
     /\ Finished)
        => response = InvalidSignatureResponse

(***************************************************************************)
(* C5 as amended: every POST that carries both headers with non-empty      *)
(* values and whose signature does not match the computed digest is        *)
(* answered 401 "invalid signature", whatever the event type and the       *)
(* trigger token are and whether or not the body is JSON.                  *)
(***************************************************************************)
C5_MismatchIsInvalidSignature ==
    (/\ IsPost /\ HasBothValues
     /\ ~SignatureMatches
     /\ Decided)
        => /\ pc = "done"
           /\ response = InvalidSignatureResponse
           /\ CallsOfRequest = {}

\* a recognized event with a body that is not JSON and a wrong digest
C5_Witness ==
    /\ IsPost /\ HasBothValues
    /\ env.GITHUB_WEBHOOK_SECRET # << >>
    /\ req.headers[EventHeader] = "installation"
    /\ req.headers[SignatureHeader] = Sha256Prefix \o BadDigest
    /\ req.body = BodyNotJson
    /\ pc = "done"
    /\ response = InvalidSignatureResponse

(***************************************************************************)
(* C6: a request whose method is not POST is answered 200 "ok" whatever    *)
(* its headers, its body and the configuration are; verifySignature is     *)
(* not called and no outbound call is made for it.                         *)
(***************************************************************************)
C6_NonPostIsOk ==
    (rid > 0 /\ ~IsPost)
        => /\ pc = "done"
           /\ response = Response(200, "ok")
           /\ verifyCalls = 0
           /\ CallsOfRequest = {}
           /\ LinesOfRequest = {}

\* a GET that would be dispatched if it were a POST
C6_Witness ==
    /\ rid > 0 /\ ~IsPost
    /\ HasBothValues
    /\ req.headers[EventHeader] = "installation"
    /\ SignatureMatches
    /\ req.body = BodyObject
    /\ env.AUTOMATION_REPO_TRIGGER_TOKEN # ""
    /\ response = Response(200, "ok")

(***************************************************************************)
(* C7: a POST without the x-github-event header is answered 400 "missing   *)
(* x-github-event header" whether the signature header is valid, invalid   *)
(* or absent; verifySignature is not called and no outbound call is made.  *)
(***************************************************************************)
C7_MissingEventFirst ==
    (IsPost /\ ~HasEvent)
        => /\ pc \in {"awaitText", "done"}
           /\ pc = "done" =>
                 response = Response(400, "missing x-github-event header")
           /\ verifyCalls = 0
           /\ CallsOfRequest = {}

\* answered 400 with no header at all
C7_Witness ==
    /\ IsPost /\ ~HasEvent /\ ~HasSignature
    /\ pc = "done"
    /\ response = Response(400, "missing x-github-event header")

(***************************************************************************)
(* C8 as stated: a POST that has the x-github-event header and no          *)
(* x-hub-signature-256 header is answered 401 "missing x-hub-signature-256 *)
(* header".                                                                *)
(***************************************************************************)
C8_Original ==
    (IsPost /\ HasEvent /\ ~HasSignature /\ Finished)
        => response = Response(401, "missing x-hub-signature-256 header")

(***************************************************************************)
(* C8 as amended: a POST that has the x-github-event header with a         *)
(* non-empty value and no x-hub-signature-256 header is answered 401       *)
(* "missing x-hub-signature-256 header", for every event type, body and    *)
(* configuration; no outbound call is made.                                *)
(***************************************************************************)
C8_MissingSignature ==
    (IsPost /\ HasEvent /\ req.headers[EventHeader] # "" /\ ~HasSignature)
        => /\ pc \in {"awaitText", "done"}
           /\ pc = "done" =>
                 response = Response(401, "missing x-hub-signature-256 header")
           /\ verifyCalls = 0
           /\ CallsOfRequest = {}

\* answered 401 for a recognized event with a JSON body
C8_Witness ==
    /\ IsPost /\ HasEvent /\ ~HasSignature
    /\ req.headers[EventHeader] = "installation_repositories"
    /\ req.body = BodyObject
    /\ pc = "done"
    /\ response = Response(401, "missing x-hub-signature-256 header")

(***************************************************************************)
(* C9 as stated: every POST with a valid signature whose event type is not *)
(* recognized is answered 200 "event ignored", for every body that carries *)
(* that signature.                                                         *)
(***************************************************************************)
C9_Original ==
    (/\ IsPost /\ HasBothValues
     /\ SignatureMatches
     /\ req.headers[EventHeader] \notin InstallationEvents
     /\ Finished)
        => response = Response(200, "event ignored")

(***************************************************************************)
(* C9 as amended: every POST with a valid signature whose event type is    *)
(* not recognized and whose body is JSON is answered 200 "event ignored"   *)
(* and makes no outbound call; when the body is not JSON, handle ends with *)
(* the exception of JSON.parse instead, also without an outbound call.     *)
(***************************************************************************)
C9_UnrecognizedIgnored ==
    (/\ IsPost /\ HasBothValues
     /\ SignatureMatches
     /\ req.headers[EventHeader] \notin InstallationEvents
     /\ Decided)
        => /\ CallsOfRequest = {}
           /\ IF req.body \in JsonBodies
              THEN pc = "done" /\ response = Response(200, "event ignored")
              ELSE pc = "failed" /\ response = NoResponse

\* a signed push with a JSON body was ignored
C9_Witness ==
    /\ IsPost /\ HasBothValues
    /\ SignatureMatches
    /\ req.headers[EventHeader] = "push"
    /\ req.body = BodyObject
    /\ pc = "done"
    /\ response = Response(200, "event ignored")

(***************************************************************************)
(* C10 as stated: a POST with a valid signature and a recognized event     *)
(* type, handled while the trigger token is empty, is answered 500         *)
(* "missing AUTOMATION_REPO_TRIGGER_TOKEN".                                *)
(***************************************************************************)
C10_Original ==
    (/\ IsPost /\ HasBothValues
     /\ SignatureMatches
     /\ req.headers[EventHeader] \in InstallationEvents
     /\ env.AUTOMATION_REPO_TRIGGER_TOKEN = ""
     /\ Finished)
        => response = Response(500, "missing AUTOMATION_REPO_TRIGGER_TOKEN")

(***************************************************************************)
(* C10 as amended: a POST with a valid signature, a recognized event type  *)
(* and a JSON body, handled while the trigger token is empty, is answered  *)
(* 500 "missing AUTOMATION_REPO_TRIGGER_TOKEN"; no outbound call is        *)
(* attempted, whether the body is JSON or not.                             *)
(***************************************************************************)
C10_MissingToken ==
    (/\ IsPost /\ HasBothValues
     /\ SignatureMatches
     /\ req.headers[EventHeader] \in InstallationEvents
     /\ env.AUTOMATION_REPO_TRIGGER_TOKEN = ""
     /\ Decided)
        => /\ CallsOfRequest = {}
           /\ req.body \in JsonBodies =>
                 /\ pc = "done"
                 /\ response = Response(500, "missing AUTOMATION_REPO_TRIGGER_TOKEN")

\* a signed installation_repositories event was answered 500
C10_Witness ==
    /\ IsPost /\ HasBothValues
    /\ SignatureMatches
    /\ req.headers[EventHeader] = "installation_repositories"
    /\ env.AUTOMATION_REPO_TRIGGER_TOKEN = ""
    /\ pc = "done"
    /\ response = Response(500, "missing AUTOMATION_REPO_TRIGGER_TOKEN")

(***************************************************************************)
(* Vocabulary of the properties about the downstream answer.               *)
(***************************************************************************)
\* the downstream endpoint has answered the call of this request
Answered == resp # NoDownstream
\* the status of the answer is a 2xx status
Is2xx(status) == status \in 200..299

(***************************************************************************)
(* C11: when the downstream endpoint answers the call of a request with a  *)
(* 2xx status s, 204 included, the caller receives 200 "dispatched: s".    *)
(***************************************************************************)
C11_SuccessIsDispatched ==
    (Answered /\ Is2xx(resp.status))
        => /\ pc = "done"
           /\ response = Response(200, "dispatched: " \o ToString(resp.status))
           /\ req.headers[EventHeader] \in InstallationEvents
           /\ env.AUTOMATION_REPO_TRIGGER_TOKEN # ""

\* an installation_repositories event answered 204 downstream
C11_Witness ==
    /\ Answered /\ resp.status = 204
    /\ req.headers[EventHeader] = "installation_repositories"
    /\ response = Response(200, "dispatched: 204")

(***************************************************************************)
(* C13: when the downstream endpoint answers the call of a request with a  *)
(* status s that is not 2xx, the caller receives 500 "dispatch failed: s", *)
(* and the status and the body of the answer are in the error log when the *)
(* response is returned; no response is given before that.                 *)
(***************************************************************************)
C13_FailureIsLoggedAndReported ==
    (Answered /\ ~Is2xx(resp.status))
        => /\ pc \in {"awaitErrorText", "done"}
           /\ pc = "awaitErrorText" => response = NoResponse
           /\ pc = "done" =>
                 /\ response = Response(500, "dispatch failed: "
                                                \o ToString(resp.status))
                 /\ \E i \in LinesOfRequest :
                       log[i].line = "GitHub API error: " \o ToString(resp.status)
                                         \o " - " \o resp.text

\* a 401 "Unauthorized" downstream was logged and reported
C13_Witness ==
    /\ Answered /\ resp = [status |-> 401, text |-> "Unauthorized"]
    /\ pc = "done"
    /\ response = Response(500, "dispatch failed: 401")
    /\ \E i \in LinesOfRequest :
          log[i].line = "GitHub API error: 401 - Unauthorized"

(***************************************************************************)
(* C14: a request causes at most one outbound call, and exactly one once   *)
(* it has reached the forwarding step; a failed downstream answer is not   *)
(* followed by a second attempt.                                           *)
(***************************************************************************)
C14_AtMostOneCall ==
    /\ Cardinality(CallsOfRequest) <= 1
    /\ Len(outbound) <= rid
    /\ (pc \in {"awaitFetch", "awaitErrorText"} \/ Answered)
          => Cardinality(CallsOfRequest) = 1

\* a request whose only call failed has finished
C14_Witness ==
    /\ Answered /\ ~Is2xx(resp.status)
    /\ pc = "done"
    /\ Cardinality(CallsOfRequest) = 1

(***************************************************************************)
(* C15: every outbound call is a POST to                                   *)
(* https://api.github.com/repos/ohcnetwork/leaderboard-bot/dispatches with *)
(* the headers authorization "token <trigger token>", accept               *)
(* "application/vnd.github+json" and content-type "application/json".      *)
(***************************************************************************)
C15_Original ==
    \A i \in 1..Len(outbound) :
        /\ outbound[i].method = "POST"
        /\ outbound[i].url
               = "https://api.github.com/repos/ohcnetwork/leaderboard-bot/dispatches"
        /\ outbound[i].headers.authorization
               = "token " \o env.AUTOMATION_REPO_TRIGGER_TOKEN
        /\ outbound[i].headers.accept = "application/vnd.github+json"
        /\ outbound[i].headers.contentType = "application/json"

(***************************************************************************)
(* C16: when GITHUB_WEBHOOK_SECRET is not configured, a webhook POST (both *)
(* headers carried with a value) is answered 500 "missing                  *)
(* GITHUB_WEBHOOK_SECRET".                                                 *)
(***************************************************************************)
C16_Original ==
    (/\ env.GITHUB_WEBHOOK_SECRET = << >>
     /\ IsPost /\ HasBothValues
     /\ Finished)
        => response = Response(500, "missing GITHUB_WEBHOOK_SECRET")

(***************************************************************************)
(* C17: replay protection: a request (same body, same event header, same   *)
(* signature header) that was already accepted and dispatched is not       *)
(* dispatched a second time when it is delivered again.                    *)
(***************************************************************************)
C17_Original ==
    \A i, j \in 1..Len(outbound) :
        (i # j) => outbound[i].request # outbound[j].request

(***************************************************************************)
(* Vocabulary of the properties about failure kinds.                       *)
(***************************************************************************)
EventMissing == ~HasEvent \/ req.headers[EventHeader] = ""
SignatureMissing == ~HasSignature \/ req.headers[SignatureHeader] = << >>

MissingEventResponse == Response(400, "missing x-github-event header")
MissingSignatureResponse == Response(401, "missing x-hub-signature-256 header")
MissingTokenResponse == Response(500, "missing AUTOMATION_REPO_TRIGGER_TOKEN")

(***************************************************************************)
(* C18 as stated: every failure path ends with a response; no failure      *)
(* ends the request without one.                                           *)
(***************************************************************************)
C18_Original ==
    (rid > 0 /\ Finished) => (pc = "done" /\ response # NoResponse)

(***************************************************************************)
(* C18 as amended: each of the five failure kinds (missing event header,   *)
(* missing signature header, invalid signature, missing trigger token,     *)
(* downstream failure) ends with its own response, and the response tells  *)
(* the kind; a request ends without a response exactly when an exception   *)
(* leaves handle: JSON.parse of a validly signed body that is not JSON, or *)
(* an outbound call that fails without an answer.                          *)
(***************************************************************************)
C18_FailureKindsAnswered ==
    (IsPost /\ Finished)
        => /\ pc = "done" => response # NoResponse
           /\ (response = MissingEventResponse) <=> EventMissing
           /\ (response = MissingSignatureResponse)
                 <=> (~EventMissing /\ SignatureMissing)
           /\ (response = InvalidSignatureResponse)
                 <=> (HasBothValues /\ ~SignatureMatches)
           /\ (response = MissingTokenResponse)
                 <=> (/\ HasBothValues /\ SignatureMatches
                      /\ req.body \in JsonBodies
                      /\ req.headers[EventHeader] \in InstallationEvents
                      /\ env.AUTOMATION_REPO_TRIGGER_TOKEN = "")
           /\ (response = Response(500, "dispatch failed: "
                                           \o ToString(resp.status)))
                 <=> (Answered /\ ~Is2xx(resp.status))
           /\ (pc = "failed")
                 <=> (/\ HasBothValues /\ SignatureMatches
                      /\ \/ req.body \notin JsonBodies
                         \/ CallsOfRequest # {} /\ ~Answered)

\* a failed downstream call was answered with its own 500 response
C18_Witness ==
    /\ IsPost /\ pc = "done"
    /\ Answered /\ ~Is2xx(resp.status)
    /\ response = Response(500, "dispatch failed: 401")

(***************************************************************************)
(* C19 as stated: a POST whose x-hub-signature-256 header is present with  *)
(* the empty string goes through the comparison and is answered 401        *)
(* "invalid signature".                                                    *)
(***************************************************************************)
C19_Original ==
    (/\ IsPost /\ ~EventMissing
     /\ HasSignature /\ req.headers[SignatureHeader] = << >>
     /\ Finished)
        => /\ response = InvalidSignatureResponse
           /\ verifyCalls = 1

(***************************************************************************)
(* C19 as amended: a POST whose x-hub-signature-256 header is present with *)
(* the empty string is reported as a missing header: it is answered 401    *)
(* "missing x-hub-signature-256 header" and verifySignature is not called. *)
(***************************************************************************)
C19_EmptySignatureIsMissing ==
    (/\ IsPost /\ ~EventMissing
     /\ HasSignature /\ req.headers[SignatureHeader] = << >>)
        => /\ pc \in {"awaitText", "done"}
           /\ pc = "done" => response = MissingSignatureResponse
           /\ verifyCalls = 0
           /\ LinesOfRequest = {}
           /\ CallsOfRequest = {}

\* answered, under a configured secret
C19_Witness ==
    /\ IsPost /\ ~EventMissing
    /\ HasSignature /\ req.headers[SignatureHeader] = << >>
    /\ env.GITHUB_WEBHOOK_SECRET # << >>
    /\ pc = "done"
    /\ response = MissingSignatureResponse

(***************************************************************************)
(* C20 as stated: a header value that does not start with "sha256=" never  *)
(* verifies, for every body and every non-empty secret.                    *)
(***************************************************************************)
C20_Original ==
    (/\ pc = "awaitVerify"
     /\ env.GITHUB_WEBHOOK_SECRET # << >>
     /\ LET g == req.headers[SignatureHeader]
        IN  ~(Len(g) >= Len(Sha256Prefix)
                /\ SubSeq(g, 1, Len(Sha256Prefix)) = Sha256Prefix))
        => ~isValid

(***************************************************************************)
(* C20 as amended: the first occurrence of the literal "sha256=" in the    *)
(* header value, wherever it stands, is removed before the comparison and  *)
(* a value without the literal is compared unmodified; for every body and  *)
(* every non-empty secret the header verifies exactly when what remains    *)
(* is the computed hex digest, so the bare digest and the digest with the  *)
(* literal inside it verify as well as the digest with the literal in      *)
(* front.                                                                  *)
(***************************************************************************)
C20_VerifiesIffCarriesDigest ==
    (pc = "awaitVerify" /\ env.GITHUB_WEBHOOK_SECRET # << >>)
        => (isValid <=> Carries(req.headers[SignatureHeader],
                                DigestOf(env.GITHUB_WEBHOOK_SECRET)))

\* a digest with the literal inside it has verified
C20_Witness ==
    /\ pc = "awaitVerify"
    /\ env.GITHUB_WEBHOOK_SECRET # << >>
    /\ req.headers[SignatureHeader]
           = InfixSignature(req.body, env.GITHUB_WEBHOOK_SECRET)
    /\ isValid

(***************************************************************************)
(* Forwarding: requests signed with the configured secret, with envelopes  *)
(* that have nested fields, arrays, a repeated key, white space, a         *)
(* negative zero and a number beyond the double range.                     *)
(***************************************************************************)
\* {"a":1e400}
BodyOverflow ==
    <<123, 34, 97, 34, 58, 49, 101, 52, 48, 48, 125>>
\* {"a":-0}
BodyNegativeZero ==
    <<123, 34, 97, 34, 58, 45, 48, 125>>
\* {"installation":{"id":7}}
BodyNested ==
    <<123, 34, 105, 110, 115, 116, 97, 108, 108, 97, 116, 105, 111, 110,
      34, 58, 123, 34, 105, 100, 34, 58, 55, 125, 125>>
\* {"repositories":[{"id":1}]}
BodyArray ==
    <<123, 34, 114, 101, 112, 111, 115, 105, 116, 111, 114, 105, 101, 115,
      34, 58, 91, 123, 34, 105, 100, 34, 58, 49, 125, 93, 125>>
\* {"a":1,"a":2}
BodyDuplicateKey ==
    <<123, 34, 97, 34, 58, 49, 44, 34, 97, 34, 58, 50, 125>>
\* { "b" : null }
BodySpaced ==
    <<32, 123, 32, 34, 98, 34, 32, 58, 32, 110, 117, 108, 108, 32, 125, 32>>

ForwardBodies ==
    {BodyEmptyObject, BodyOverflow, BodyNegativeZero, BodyNested, BodyArray,
     BodyDuplicateKey, BodySpaced}
ForwardEvents == {"installation", "installation_repositories", "push"}
ForwardRequests ==
    {[method |-> "POST",
      headers |-> [n \in {EventHeader, SignatureHeader} |->
                      IF n = EventHeader THEN e ELSE generateSignature(b, SecretK)],
      body |-> b] : e \in ForwardEvents, b \in ForwardBodies}
ForwardEnvs ==
    [AUTOMATION_REPO_TRIGGER_TOKEN : Tokens, GITHUB_WEBHOOK_SECRET : {SecretK}]
ForwardStatuses == {204, 401}

InitForward ==
    /\ env \in ForwardEnvs
    /\ rid = 0
    /\ req = NoRequest
    /\ pc = "idle"
    /\ isValid = FALSE
    /\ verifyCalls = 0
    /\ resp = NoDownstream
    /\ response = NoResponse
    /\ outbound = << >>
    /\ log = << >>
    /\ compare = NoCompare
    /\ invocations = NoInvocations

NextForward ==
    \/ \E r \in ForwardRequests : Receive(r)
    \/ ReadBody
    \/ AfterVerify
    \/ \E status \in ForwardStatuses : DownstreamRespond(status, "")
    \/ DownstreamReject
    \/ ReadErrorText

SpecForward == InitForward /\ [][NextForward]_vars

(***************************************************************************)
(* Vocabulary of the properties about the forwarded body.                  *)
(***************************************************************************)
\* the value {event_type: tag, client_payload: {github_event, payload}}
Envelope(tag, githubEvent, payload) ==
    JObject(<<[key |-> CharCodes("event_type"), value |-> JString(tag)],
              [key |-> CharCodes("client_payload"),
               value |-> JObject(<<[key |-> CharCodes("github_event"),
                                    value |-> JString(githubEvent)],
                                   [key |-> CharCodes("payload"),
                                    value |-> payload]>>)]>>)

\* the value a JSON text can carry for v: a number that is not finite
\* becomes null and a negative zero becomes zero, everything else is kept
RECURSIVE Sendable(_)
Sendable(v) ==
    CASE v.type = "number" ->
            IF ~v.finite THEN JNull
            ELSE IF v.mantissa = 0 THEN [v EXCEPT !.neg = FALSE]
            ELSE v
      [] v.type = "array" ->
            JArray([n \in 1..Len(v.items) |-> Sendable(v.items[n])])
      [] v.type = "object" ->
            JObject([n \in 1..Len(v.members) |->
                        [key |-> v.members[n].key,
                         value |-> Sendable(v.members[n].value)]])
      [] OTHER -> v

\* what the downstream endpoint reads in the body of call i
Sent(i) == ParseText(outbound[i].body)

(***************************************************************************)
(* C12 as stated: the body of the outbound call of a request is the JSON   *)
(* text of {event_type: "leaderboard-bot-installed", client_payload:       *)
(* {github_event: header value, payload: parsed request body}} with the    *)
(* parsed request body unchanged.  Violated: a number beyond the double    *)
(* range is parsed as Infinity and sent as null.                           *)
(***************************************************************************)
C12_Original ==
    \A i \in CallsOfRequest :
        /\ Sent(i).ok
        /\ Sent(i).value = Envelope(CharCodes("leaderboard-bot-installed"),
                                    CharCodes(req.headers[EventHeader]),
                                    ParseText(req.body).value)

(***************************************************************************)
(* C12: the body of the outbound call of a request is the JSON text of     *)
(* {event_type: "leaderboard-bot-installed", client_payload:               *)
(* {github_event: header value of this request, payload: parsed request    *)
(* body}}: every field of the envelope is kept, in order and with its      *)
(* value, nothing is added, and the only values that change are a number   *)
(* that is not finite, sent as null, and a negative zero, sent as 0.       *)
(***************************************************************************)
C12_ForwardedEnvelope ==
    \A i \in CallsOfRequest :
        /\ Sent(i).ok
        /\ Sent(i).value = Envelope(CharCodes("leaderboard-bot-installed"),
                                    CharCodes(req.headers[EventHeader]),
                                    Sendable(ParseText(req.body).value))

\* an installation_repositories event with the nested envelope was
\* forwarded, and one with the number beyond the double range before it
C12_Witness ==
    /\ pc = "awaitFetch"
    /\ req.headers[EventHeader] = "installation_repositories"
    /\ req.body = BodyNested
    /\ \E i \in CallsOfRequest :
          Sent(i).value.members[2].value.members[2].value
              = ParseText(BodyNested).value
    /\ \E j \in 1..Len(outbound) :
          /\ outbound[j].request.body = BodyOverflow
          /\ ParseText(outbound[j].body).value.members[2].value.members[2].value
                = JObject(<<[key |-> <<97>>, value |-> JNull]>>)

(***************************************************************************)
(* timingSafeEqual step by step: the length test, one iteration of the     *)
(* for loop per step, and the return after the loop.  The field examined   *)
(* records the indices i at which charCodeAt was called on a and b.        *)
(***************************************************************************)
\* "a", "b", "c": the pairwise XORs are 3, 2 and 1
Alphabet == {97, 98, 99}
Strings == UNION {[1..n -> Alphabet] : n \in 0..MaxLen}

\* the variables of handle
handleVars == <<env, rid, req, pc, isValid, verifyCalls, resp, response,
                outbound, log>>

\* no request has been received
HandleIdle ==
    /\ rid = 0
    /\ req = NoRequest
    /\ pc = "idle"
    /\ isValid = FALSE
    /\ verifyCalls = 0
    /\ resp = NoDownstream
    /\ response = NoResponse
    /\ outbound = << >>
    /\ log = << >>

\* timingSafeEqual is entered with arguments a and b
InitCompare ==
    /\ env \in ForwardEnvs
    /\ HandleIdle
    /\ compare \in {[pc |-> "entry", a |-> x, b |-> y, i |-> 0, result |-> 0,
                     examined |-> {}, value |-> FALSE] : x, y \in Strings}
    /\ invocations = NoInvocations

\* if (a.length !== b.length) return false; let result = 0; let i = 0
LengthTest ==
    /\ compare.pc = "entry"
    /\ compare' = IF Len(compare.a) # Len(compare.b)
                  THEN [compare EXCEPT !.pc = "returned", !.value = FALSE]
                  ELSE [compare EXCEPT !.pc = "loop", !.result = 0, !.i = 0]
    /\ UNCHANGED <<handleVars, invocations>>

\* variant: the loop is left at the first pair that differs
LoopStepEarlyExit ==
    /\ compare.pc = "loop"
    /\ compare.i < Len(compare.a)
    /\ LET x == BitXor(compare.a[compare.i + 1], compare.b[compare.i + 1])
       IN  compare' =
             IF x # 0
             THEN [compare EXCEPT !.examined = @ \cup {compare.i},
                                  !.pc = "returned", !.value = FALSE]
             ELSE [compare EXCEPT !.examined = @ \cup {compare.i},
                                  !.i = @ + 1]
    /\ UNCHANGED <<handleVars, invocations>>

\* variant: the differences are accumulated with ^= instead of |=
LoopStepXorAccumulate ==
    /\ compare.pc = "loop"
    /\ compare.i < Len(compare.a)
    /\ compare' = [compare EXCEPT
           !.result = BitXor(@, BitXor(compare.a[compare.i + 1],
                                       compare.b[compare.i + 1])),
           !.examined = @ \cup {compare.i},
           !.i = @ + 1]
    /\ UNCHANGED <<handleVars, invocations>>

\* i < a.length: result |= a.charCodeAt(i) ^ b.charCodeAt(i); i++
LoopStep ==
    /\ compare.pc = "loop"
    /\ compare.i < Len(compare.a)
    /\ compare' = [compare EXCEPT
           !.result = BitOr(@, BitXor(compare.a[compare.i + 1],
                                      compare.b[compare.i + 1])),
           !.examined = @ \cup {compare.i},
           !.i = @ + 1]
    /\ UNCHANGED <<handleVars, invocations>>

\* i < a.length is false: return result === 0
LoopExit ==
    /\ compare.pc = "loop"
    /\ ~(compare.i < Len(compare.a))
    /\ compare' = [compare EXCEPT !.pc = "returned",
                                  !.value = (compare.result = 0)]
    /\ UNCHANGED <<handleVars, invocations>>

NextCompare ==
    \/ LengthTest
    \/ LoopStep
    \/ LoopExit

SpecCompare == InitCompare /\ [][NextCompare]_vars

(***************************************************************************)
(* Vocabulary of the properties about the comparator.                      *)
(***************************************************************************)
\* the call has returned
Returned == compare.pc = "returned"
\* the arguments have the same length
SameLength == Len(compare.a) = Len(compare.b)
\* the positions, counted from 0, at which the arguments differ
Mismatches ==
    {n \in 0..(Len(compare.a) - 1) :
        n < Len(compare.b) /\ compare.a[n + 1] # compare.b[n + 1]}

(***************************************************************************)
(* C21: the comparator never exits early.  For arguments of equal length   *)
(* n it examines every index 0..n-1, in order and before it returns,       *)
(* whether the arguments are equal or differ and wherever they differ;     *)
(* for arguments of different lengths it returns false with no character   *)
(* examined.                                                               *)
(***************************************************************************)
C21_NoEarlyExit ==
    /\ compare.pc = "loop" => compare.examined = 0..(compare.i - 1)
    /\ Returned =>
          IF SameLength
          THEN compare.examined = 0..(Len(compare.a) - 1)
          ELSE compare.examined = {} /\ ~compare.value

\* arguments of length MaxLen that differ at the first position only were
\* compared to the end
C21_Witness ==
    /\ Returned
    /\ Len(compare.a) = MaxLen
    /\ Mismatches = {0}
    /\ compare.examined = 0..(MaxLen - 1)
    /\ ~compare.value

(***************************************************************************)
(* C29: timingSafeEqual(a, b) returns true if and only if a and b have the *)
(* same length and the same character code at every position: the          *)
(* OR-accumulated XOR is zero exactly when no position differs.  The       *)
(* function applied in one step gives the same answer.                     *)
(***************************************************************************)
C29_ComparatorCorrect ==
    /\ compare.pc = "loop" =>
          (compare.result = 0 <=> \A n \in Mismatches : n >= compare.i)
    /\ Returned =>
          /\ compare.value <=> (SameLength /\ Mismatches = {})
          /\ compare.value <=> (compare.a = compare.b)
          /\ compare.value = timingSafeEqual(compare.a, compare.b)

\* arguments whose two differences have the same XOR were told apart
C29_Witness ==
    /\ Returned
    /\ compare.a = <<97, 97>>
    /\ compare.b = <<98, 98>>
    /\ compare.result = 3
    /\ ~compare.value

(***************************************************************************)
(* Concurrent invocations.  The worker runs on one event loop: an          *)
(* invocation of handle runs from one await to the next without            *)
(* interruption, and between two awaits of one invocation any other        *)
(* invocation may run.  Each invocation has its own frame (request and     *)
(* locals); the configuration, the downstream endpoint and the error log   *)
(* are shared.                                                             *)
(***************************************************************************)
ConcurrentRequests ==
    {[method |-> "GET", headers |-> << >>, body |-> << >>],
     [method |-> "POST", headers |-> << >>, body |-> BodyEmptyObject]}
    \cup {[method |-> "POST",
           headers |-> [n \in {EventHeader, SignatureHeader} |->
                           IF n = EventHeader THEN e ELSE g],
           body |-> b] :
             e \in {"installation", "push"},
             b \in {BodyEmptyObject, BodyNotJson},
             g \in {generateSignature(BodyEmptyObject, SecretK),
                    generateSignature(BodyNotJson, SecretK)}}
ConcurrentEnvs ==
    [AUTOMATION_REPO_TRIGGER_TOKEN : Tokens, GITHUB_WEBHOOK_SECRET : {<< >>, SecretK}]

InitConcurrent ==
    /\ env \in ConcurrentEnvs
    /\ HandleIdle
    /\ compare = NoCompare
    /\ invocations = << >>

\* the frame of an invocation that has returned response r
Returning(frame, r) == [frame EXCEPT !.pc = "done", !.response = r]

\* variant: isValid is kept in a module-level variable, which the start of
\* an invocation resets and which is read as the latest invocation left it
LocalsShared(k) ==
    [invocations[k] EXCEPT !.isValid = invocations[Len(invocations)].isValid]

\* the request and the locals of invocation k
Locals(k) == invocations[k]

\* fetch is invoked while other invocations are in flight
Invoke(r) ==
    /\ Len(invocations) < MaxRequests
    /\ invocations' = Append(invocations,
            IF NotPost(r.method)
            THEN [req |-> r, pc |-> "done", isValid |-> FALSE,
                  resp |-> NoDownstream, response |-> Response(200, "ok")]
            ELSE [req |-> r, pc |-> "awaitText", isValid |-> FALSE,
                  resp |-> NoDownstream, response |-> NoResponse])
    /\ UNCHANGED <<handleVars, compare>>

\* invocation k: the body is read, the header checks run, verifySignature
\* is called
ReadBodyOf(k) ==
    /\ k \in DOMAIN invocations
    /\ Locals(k).pc = "awaitText"
    /\ LET f == Locals(k)
       IN  IF HeaderCheck(f.req.headers) # NoResponse
           THEN /\ invocations' = [invocations EXCEPT
                       ![k] = Returning(f, HeaderCheck(f.req.headers))]
                /\ UNCHANGED log
           ELSE LET v == verifySignature(f.req.body,
                                         f.req.headers[SignatureHeader],
                                         env.GITHUB_WEBHOOK_SECRET)
                IN  /\ invocations' = [invocations EXCEPT
                           ![k] = [f EXCEPT !.isValid = v.result,
                                            !.pc = "awaitVerify"]]
                    /\ log' = log \o [i \in 1..Len(v.errors) |->
                                         [rid |-> k, line |-> v.errors[i]]]
    /\ UNCHANGED <<env, rid, req, pc, isValid, verifyCalls, resp, response,
                   outbound, compare>>

\* invocation k: verifySignature has answered; handle runs up to
\* `await fetch(...)`
AfterVerifyOf(k) ==
    /\ k \in DOMAIN invocations
    /\ Locals(k).pc = "awaitVerify"
    /\ LET f == Locals(k)
           event == f.req.headers[EventHeader]
           parsed == JSONParse(f.req.body)
           token == env.AUTOMATION_REPO_TRIGGER_TOKEN
       IN  IF ~f.isValid
           THEN /\ invocations' = [invocations EXCEPT
                       ![k] = Returning(f, Response(401, "invalid signature"))]
                /\ UNCHANGED outbound
           ELSE IF ~parsed.ok
           THEN /\ invocations' = [invocations EXCEPT
                       ![k] = [f EXCEPT !.pc = "failed"]]
                /\ UNCHANGED outbound
           ELSE IF event \notin RecognizedEvents
           THEN /\ invocations' = [invocations EXCEPT
                       ![k] = Returning(f, Response(200, "event ignored"))]
                /\ UNCHANGED outbound
           ELSE IF token = ""
           THEN /\ invocations' = [invocations EXCEPT
                       ![k] = Returning(f,
                           Response(500, "missing AUTOMATION_REPO_TRIGGER_TOKEN"))]
                /\ UNCHANGED outbound
           ELSE /\ outbound' = Append(outbound,
                        [rid |-> k,
                         request |-> f.req,
                         url |-> DispatchUrl,
                         method |-> "POST",
                         headers |-> DispatchHeaders(token),
                         body |-> JSONStringify(
                                      DispatchBody(event, parsed.value))])
                /\ invocations' = [invocations EXCEPT
                       ![k] = [f EXCEPT !.pc = "awaitFetch"]]
    /\ UNCHANGED <<env, rid, req, pc, isValid, verifyCalls, resp, response,
                   log, compare>>

\* the downstream endpoint answers the outbound call of invocation k
DownstreamRespondTo(k, status, text) ==
    /\ k \in DOMAIN invocations
    /\ Locals(k).pc = "awaitFetch"
    /\ LET f == [Locals(k) EXCEPT !.resp = [status |-> status, text |-> text]]
       IN  invocations' = [invocations EXCEPT
               ![k] = IF ~Ok(status)
                      THEN [f EXCEPT !.pc = "awaitErrorText"]
                      ELSE Returning(f, Response(200,
                               "dispatched: " \o ToString(status)))]
    /\ UNCHANGED <<handleVars, compare>>

\* the outbound call of invocation k fails without an answer
DownstreamRejectOf(k) ==
    /\ k \in DOMAIN invocations
    /\ Locals(k).pc = "awaitFetch"
    /\ invocations' = [invocations EXCEPT ![k] = [Locals(k) EXCEPT !.pc = "failed"]]
    /\ UNCHANGED <<handleVars, compare>>

\* variant: the body of the failed downstream answer is put into the
\* response
ReadErrorTextOfLeak(k) ==
    /\ k \in DOMAIN invocations
    /\ Locals(k).pc = "awaitErrorText"
    /\ LET f == Locals(k)
       IN  /\ log' = Append(log,
                   [rid |-> k,
                    line |-> "GitHub API error: " \o ToString(f.resp.status)
                                \o " - " \o f.resp.text])
           /\ invocations' = [invocations EXCEPT
                  ![k] = Returning(f, Response(500,
                             "dispatch failed: " \o ToString(f.resp.status)
                                 \o " - " \o f.resp.text))]
    /\ UNCHANGED <<env, rid, req, pc, isValid, verifyCalls, resp, response,
                   outbound, compare>>

\* invocation k: the body of a failed downstream answer is read, logged
\* and reported
ReadErrorTextOf(k) ==
    /\ k \in DOMAIN invocations
    /\ Locals(k).pc = "awaitErrorText"
    /\ LET f == Locals(k)
       IN  /\ log' = Append(log,
                   [rid |-> k,
                    line |-> "GitHub API error: " \o ToString(f.resp.status)
                                \o " - " \o f.resp.text])
           /\ invocations' = [invocations EXCEPT
                  ![k] = Returning(f, Response(500,
                             "dispatch failed: " \o ToString(f.resp.status)))]
    /\ UNCHANGED <<env, rid, req, pc, isValid, verifyCalls, resp, response,
                   outbound, compare>>

NextConcurrent ==
    \/ \E r \in ConcurrentRequests : Invoke(r)
    \/ \E k \in 1..MaxRequests : ReadBodyOf(k)
    \/ \E k \in 1..MaxRequests : AfterVerifyOf(k)
    \/ \E k \in 1..MaxRequests, status \in ForwardStatuses,
          text \in DownstreamTexts : DownstreamRespondTo(k, status, text)
    \/ \E k \in 1..MaxRequests : DownstreamRejectOf(k)
    \/ \E k \in 1..MaxRequests : ReadErrorTextOf(k)

SpecConcurrent == InitConcurrent /\ [][NextConcurrent]_vars

(***************************************************************************)
(* Vocabulary of the properties about concurrent invocations.              *)
(***************************************************************************)
\* invocation k has finished, with a response or with an exception
FinishedOf(k) == invocations[k].pc \in {"done", "failed"}
\* the outbound calls of invocation k, without the number of the invocation
CallsOf(k) ==
    {[url |-> outbound[i].url, method |-> outbound[i].method,
      headers |-> outbound[i].headers, body |-> outbound[i].body] :
        i \in {n \in 1..Len(outbound) : outbound[n].rid = k}}
\* the lines that invocation k wrote to the log
LinesOf(k) == {log[i].line : i \in {n \in 1..Len(log) : log[n].rid = k}}
\* invocations j and k have finished, with the same request and the same
\* downstream answer
SameInputs(j, k) ==
    /\ FinishedOf(j) /\ FinishedOf(k)
    /\ invocations[j].req = invocations[k].req
    /\ invocations[j].resp = invocations[k].resp
\* a step leaves the frames of the invocations other than k as they are
OnlyFrame(k) ==
    \A j \in DOMAIN invocations : j # k => invocations'[j] = invocations[j]

(***************************************************************************)
(* C22: requests are independent.  Whatever the interleaving of the        *)
(* invocations and whatever ran before, two invocations with the same      *)
(* request and the same downstream answer end the same way, with the same  *)
(* response, the same outbound call and the same log lines; a step of one  *)
(* invocation changes the frame of no other invocation; the configuration  *)
(* never changes.                                                          *)
(***************************************************************************)
C22_RequestsIndependent ==
    /\ [](\A j, k \in DOMAIN invocations :
             SameInputs(j, k) =>
                /\ invocations[j].pc = invocations[k].pc
                /\ invocations[j].response = invocations[k].response
                /\ CallsOf(j) = CallsOf(k)
                /\ LinesOf(j) = LinesOf(k))
    /\ [][/\ env' = env
          /\ \E k \in DOMAIN invocations' : OnlyFrame(k)
          /\ \A i \in 1..Len(outbound) : outbound'[i] = outbound[i]
          /\ \A i \in 1..Len(log) : log'[i] = log[i]]_vars

\* two invocations of the same signed request ran interleaved, the second
\* started before the first had its signature verified and finished first,
\* and both were dispatched
C22_Witness ==
    /\ Len(invocations) = 2
    /\ invocations[1].req = invocations[2].req
    /\ invocations[1].pc = "done" /\ invocations[2].pc = "done"
    /\ invocations[1].response = Response(200, "dispatched: 204")
    /\ invocations[2].response = Response(200, "dispatched: 204")
    /\ Len(outbound) = 2
    /\ outbound[1].rid = 2 /\ outbound[2].rid = 1

(***************************************************************************)
(* Vocabulary of the properties about the dispatcher stage.                *)
(***************************************************************************)
\* the request is authenticated and its body is parsed
Parsed ==
    /\ IsPost /\ HasBothValues /\ SignatureMatches
    /\ req.body \in JsonBodies
    /\ Decided
Recognized == req.headers[EventHeader] \in InstallationEvents
TokenSet == env.AUTOMATION_REPO_TRIGGER_TOKEN # ""
IgnoredResponse == Response(200, "event ignored")
DispatchedResponse(status) == Response(200, "dispatched: " \o ToString(status))
DispatchFailedResponse(status) ==
    Response(500, "dispatch failed: " \o ToString(status))

(***************************************************************************)
(* C23: a validly signed POST whose body is not valid JSON ends with the   *)
(* exception of JSON.parse leaving handle: none of the named responses is  *)
(* returned and no outbound call is made, for recognized and for           *)
(* unrecognized event types alike, and whatever the trigger token.         *)
(***************************************************************************)
C23_InvalidJsonIsFatal ==
    (/\ IsPost /\ HasBothValues /\ SignatureMatches
     /\ req.body \notin JsonBodies
     /\ Decided)
        => /\ pc = "failed"
           /\ response = NoResponse
           /\ CallsOfRequest = {}
           /\ ~Answered

\* a signed push whose body is not JSON ended with the exception
C23_Witness ==
    /\ IsPost /\ HasBothValues /\ SignatureMatches
    /\ req.body = BodyNotJson
    /\ req.headers[EventHeader] = "push"
    /\ pc = "failed"
    /\ response = NoResponse

(***************************************************************************)
(* C24 as stated: every authenticated, parsed request that has finished    *)
(* is in one of the four terminal states Ignored, MissingToken, Dispatched *)
(* and DispatchFailed, with the response of that state.  Violated: an      *)
(* outbound call that fails without an answer ends the request in none of  *)
(* them.                                                                   *)
(***************************************************************************)
C24_Original ==
    (Parsed /\ Finished)
        => /\ pc = "done"
           /\ \/ response = IgnoredResponse
              \/ response = MissingTokenResponse
              \/ Answered /\ response = DispatchedResponse(resp.status)
              \/ Answered /\ response = DispatchFailedResponse(resp.status)

(***************************************************************************)
(* C24: the dispatcher stage follows Parsed -> {Ignored | MissingToken |   *)
(* AwaitingDownstream -> {Dispatched | DispatchFailed}}.  An unrecognized  *)
(* event is Ignored whatever the token; a recognized event with an empty   *)
(* token is MissingToken; only a recognized event with a non-empty token   *)
(* enters AwaitingDownstream, with exactly one outbound call, and leaves   *)
(* it as Dispatched on a 2xx answer, as DispatchFailed on another answer,  *)
(* or with an exception and no response when the call fails without an     *)
(* answer.  Each terminal state has its own response.                      *)
(***************************************************************************)
C24_DispatcherStateMachine ==
    /\ Parsed =>
          /\ ~Recognized =>
                pc = "done" /\ response = IgnoredResponse /\ CallsOfRequest = {}
          /\ (Recognized /\ ~TokenSet) =>
                pc = "done" /\ response = MissingTokenResponse
                    /\ CallsOfRequest = {}
          /\ (Recognized /\ TokenSet) =>
                /\ Cardinality(CallsOfRequest) = 1
                /\ pc \in {"awaitFetch", "awaitErrorText", "done", "failed"}
                /\ pc = "awaitFetch" => ~Answered /\ response = NoResponse
                /\ pc = "awaitErrorText" =>
                      Answered /\ ~Is2xx(resp.status) /\ response = NoResponse
                /\ pc = "failed" => ~Answered /\ response = NoResponse
                /\ pc = "done" =>
                      /\ Answered
                      /\ response = IF Is2xx(resp.status)
                                    THEN DispatchedResponse(resp.status)
                                    ELSE DispatchFailedResponse(resp.status)
    /\ (rid > 0 /\ pc \in {"awaitFetch", "awaitErrorText"}) =>
          Parsed /\ Recognized /\ TokenSet

\* a signed push handled while the token is empty was ignored
C24_Witness ==
    /\ Parsed
    /\ req.headers[EventHeader] = "push"
    /\ ~TokenSet
    /\ pc = "done"
    /\ response = IgnoredResponse

(***************************************************************************)
(* Vocabulary of the properties about the downstream body.                 *)
(***************************************************************************)
\* invocation k has returned after a downstream answer that is not 2xx
FailedDispatchOf(k) ==
    /\ invocations[k].pc = "done"
    /\ invocations[k].resp # NoDownstream
    /\ ~Is2xx(invocations[k].resp.status)

(***************************************************************************)
(* C25: the response of a failed dispatch does not depend on the body of   *)
(* the downstream answer.  Two invocations with the same request whose     *)
(* calls are answered with the same status that is not 2xx return the same *)
(* response, 500 "dispatch failed: <status>", whatever the two downstream  *)
(* bodies are; the downstream body goes to the log line of the invocation  *)
(* and nowhere else.                                                       *)
(***************************************************************************)
C25_ResponseIgnoresDownstreamBody ==
    \A j, k \in DOMAIN invocations :
        (/\ FailedDispatchOf(j) /\ FailedDispatchOf(k)
         /\ invocations[j].req = invocations[k].req
         /\ invocations[j].resp.status = invocations[k].resp.status)
            => /\ invocations[j].response = invocations[k].response
               /\ invocations[j].response
                     = DispatchFailedResponse(invocations[j].resp.status)
               /\ CallsOf(j) = CallsOf(k)
               /\ (LinesOf(j) = LinesOf(k))
                     <=> (invocations[j].resp.text = invocations[k].resp.text)

\* two invocations of the same request were answered 401 downstream, one
\* with an empty body and one with "Unauthorized", and returned the same
\* response
C25_Witness ==
    /\ Len(invocations) = 2
    /\ FailedDispatchOf(1) /\ FailedDispatchOf(2)
    /\ invocations[1].req = invocations[2].req
    /\ invocations[1].resp = [status |-> 401, text |-> ""]
    /\ invocations[2].resp = [status |-> 401, text |-> "Unauthorized"]
    /\ invocations[1].response = invocations[2].response
    /\ LinesOf(2) = {"GitHub API error: 401 - Unauthorized"}

(***************************************************************************)
(* Vocabulary of the properties about the configuration error.             *)
(***************************************************************************)
\* the number of times the request being handled has written the
\* configuration error to the log
ConfigurationErrors ==
    Cardinality({i \in LinesOfRequest : log[i].line = SecretNotConfigured})
SecretEmpty == env.GITHUB_WEBHOOK_SECRET = << >>

(***************************************************************************)
(* C26 as stated: every request handled while GITHUB_WEBHOOK_SECRET is     *)
(* empty has written the configuration error to the log exactly once when  *)
(* it has finished.  Violated: a request that is answered before the       *)
(* signature check (not a POST, or a header missing or empty) writes       *)
(* nothing.                                                                *)
(***************************************************************************)
C26_Original ==
    (rid > 0 /\ Finished /\ SecretEmpty) => ConfigurationErrors = 1

(***************************************************************************)
(* C26: no request writes the configuration error more than once, and a    *)
(* request writes it exactly once exactly when it reaches the signature    *)
(* check while GITHUB_WEBHOOK_SECRET is empty, that is, when it is a POST  *)
(* with a non-empty value in both headers; such a request is then answered *)
(* 401 "invalid signature".                                                *)
(***************************************************************************)
C26_SecretErrorOncePerVerification ==
    /\ ConfigurationErrors <= 1
    /\ rid > 0 =>
          ((ConfigurationErrors = 1)
              <=> (SecretEmpty /\ IsPost /\ HasBothValues /\ pc # "awaitText"))
    /\ (ConfigurationErrors = 1 /\ Finished)
          => pc = "done" /\ response = InvalidSignatureResponse

\* the second request handled with an empty secret wrote its own line
C26_Witness ==
    /\ rid = 2
    /\ SecretEmpty
    /\ Len(log) = 2
    /\ ConfigurationErrors = 1
    /\ pc = "done"
    /\ response = InvalidSignatureResponse

(***************************************************************************)
(* C27: every response has status 200, 400, 401 or 500, and a POST is      *)
(* answered 200 only if its signature was verified under a non-empty       *)
(* secret: the 200 responses of a POST are "event ignored" and             *)
(* "dispatched: <status>" for a 2xx status of the downstream answer.       *)
(***************************************************************************)
C27_ResponseStatuses ==
    /\ response # NoResponse => response.status \in {200, 400, 401, 500}
    /\ pc = "done" => response # NoResponse
    /\ (IsPost /\ response # NoResponse /\ response.status = 200)
          => /\ HasBothValues /\ SignatureMatches /\ isValid
             /\ ~SecretEmpty
             /\ \/ response = IgnoredResponse /\ ~Recognized
                \/ /\ Answered /\ Is2xx(resp.status) /\ Recognized
                   /\ response = DispatchedResponse(resp.status)

\* a signed installation event answered 204 downstream got status 200
C27_Witness ==
    /\ IsPost /\ SignatureMatches
    /\ pc = "done"
    /\ response.status = 200
    /\ response = DispatchedResponse(204)
    /\ req.headers[EventHeader] = "installation"

(***************************************************************************)
(* Termination.  The requests are handled one after the other by an        *)
(* environment in which every await of handle is eventually resumed: the   *)
(* body read and the HMAC computation complete, the downstream endpoint    *)
(* answers every outbound call (no call fails without an answer), and the  *)
(* body of its answer can be read.                                         *)
(***************************************************************************)
NextTermination ==
    \/ \E r \in ConcurrentRequests : Receive(r)
    \/ ReadBody
    \/ AfterVerify
    \/ \E status \in ForwardStatuses, text \in DownstreamTexts :
          DownstreamRespond(status, text)
    \/ ReadErrorText

InitTermination ==
    /\ env \in ConcurrentEnvs
    /\ HandleIdle
    /\ compare = NoCompare
    /\ invocations = NoInvocations

SpecTermination ==
    /\ InitTermination
    /\ [][NextTermination]_vars
    /\ WF_vars(ReadBody)
    /\ WF_vars(AfterVerify)
    /\ WF_vars(\E status \in ForwardStatuses, text \in DownstreamTexts :
                  DownstreamRespond(status, text))
    /\ WF_vars(ReadErrorText)

(***************************************************************************)
(* Vocabulary of the properties about termination.                         *)
(***************************************************************************)
\* the positions at which handle is suspended: the body read, the HMAC
\* computation, the outbound call, the read of the downstream body
Suspended == pc \in {"awaitText", "awaitVerify", "awaitFetch", "awaitErrorText"}

(***************************************************************************)
(* C28 as stated: when the downstream endpoint answers every call, every   *)
(* request eventually completes with a response.  Violated: a validly      *)
(* signed body that is not JSON completes with the exception of JSON.parse *)
(* and no response.                                                        *)
(***************************************************************************)
C28_Original ==
    \A n \in 1..MaxRequests :
        (rid = n) ~> (rid = n /\ pc = "done" /\ response # NoResponse)

(***************************************************************************)
(* C28: when the downstream endpoint answers every call, every request     *)
(* eventually completes, with one response or, for a validly signed body   *)
(* that is not JSON, with the exception of JSON.parse and no response; a   *)
(* response, once returned, is not replaced; until it completes, handle is *)
(* suspended only at the body read, the HMAC computation, the outbound     *)
(* call or the read of the downstream body, and it makes one call at most. *)
(***************************************************************************)
C28_Terminates ==
    /\ \A n \in 1..MaxRequests : (rid = n) ~> (rid = n /\ Finished)
    /\ [](rid > 0 => (Suspended \/ Finished))
    /\ [](pc = "done" => response # NoResponse)
    /\ [](pc = "failed" =>
             /\ response = NoResponse
             /\ IsPost /\ HasBothValues /\ SignatureMatches
             /\ req.body \notin JsonBodies)
    /\ [](pc = "awaitErrorText" => Answered /\ ~Is2xx(resp.status))
    /\ [][(response # NoResponse /\ rid' = rid) => response' = response]_vars
    /\ [](Cardinality(CallsOfRequest) <= 1)

\* after a request that was dispatched, a second one with a signed body
\* that is not JSON ended with the exception
C28_Witness ==
    /\ rid = 2
    /\ pc = "failed"
    /\ req.body = BodyNotJson
    /\ Len(outbound) = 1
    /\ Len(log) = 1

====
